---- MODULE Spec2Model ----
(***************************************************************************)
(* The room engine of ootr-multiworld (crate multiworld, struct Room):     *)
(* the client registry, the world assignment, the item queues and the      *)
(* broadcast / unicast delivery built on Room::write and Room::write_all.  *)
(*                                                                         *)
(* Every Room method takes &mut self, so each method call is one atomic    *)
(* step of the model.  What is not determined by the arguments of a call   *)
(* is nondeterministic: whether a write to a connection succeeds, and the   *)
(* order in which an iteration over the HashMap `clients` visits it.       *)
(*                                                                         *)
(* Beside the room: the RoomClient of crate multiworld-csharp, which       *)
(* rebuilds the state of the room from the messages it receives, and the   *)
(* handshake connect_sync.                                                 *)
(***************************************************************************)
EXTENDS Integers, Sequences, FiniteSets

\* ---------------------------------------------------------------- bounds
\* The connections of specification Spec are 1..MaxClients.
MaxClients == 2
\* Specification SpecQ queues items while every queue is shorter than this.
MaxQueue == 3
\* Specification SpecV makes calls while no RoomClient counts more
\* unassigned clients than this.
MaxUnassigned == 3
\* The stream of Pj64Listener is followed for this many Plugin messages.
MaxPlugin == 2

\* ------------------------------------------------------ program constants
VERSION == 1
TRIFORCE_PIECE == 202
DEFAULT_NAME == 223

ClientIds == 1..MaxClients      \* SocketId
Worlds == {1, 2}                \* NonZeroU8
Keys == {1}                     \* u32
Kinds == {TRIFORCE_PIECE, 1}    \* u16: the shared kind and one other kind
Names == {DEFAULT_NAME, 1}      \* [u8; 8]: the default name and one other name

VARIABLES
    clients,        \* Room::clients: client id -> Option<Player>
    base_queue,     \* Room::base_queue
    player_queues,  \* Room::player_queues: world -> queue
    sent,           \* per connection, the writes attempted during the call
    op,             \* the call: method, arguments, return value
    accepted,       \* history: the world-specific items pushed so far, as
                    \* (source, key, target world)
    view,           \* per registered client, its RoomClient: the picture of
                    \* the room it keeps from the messages it receives
    conn,           \* one call of connect_sync: its position, its host, what
                    \* went over the wire, its stream and its result
    listener,       \* the stream of Pj64Listener: its position, the two
                    \* versions, what went over the wire, the Messages emitted
    session,        \* the task of each connection that has called add_client
                    \* and not yet remove_client for itself: "running", or
                    \* "panicked" in a call of the Room
    released        \* history: for each world whose holder has gone, whether
                    \* it is still unclaimed, and the items queued for it
                    \* while it was

vars == <<clients, base_queue, player_queues, sent, op, accepted, view, conn,
          listener, session, released>>

\* ------------------------------------------------------------ data types
\* Option<Player>: None is the value with world 0 (world is a NonZeroU8).
None == [world |-> 0, name |-> DEFAULT_NAME]

\* Player::new
NewPlayer(world) == [world |-> world, name |-> DEFAULT_NAME]

Item(source, key, kind) == [source |-> source, key |-> key, kind |-> kind]

\* ServerMessage; the fields a variant does not carry are left at 0 / <<>>.
Msg(type, world, name, kind, queue) ==
    [type |-> type, world |-> world, name |-> name, kind |-> kind, queue |-> queue]

MsgPlayerId(w) == Msg("PlayerId", w, 0, 0, <<>>)
MsgResetPlayerId(w) == Msg("ResetPlayerId", w, 0, 0, <<>>)
MsgClientConnected == Msg("ClientConnected", 0, 0, 0, <<>>)
MsgPlayerDisconnected(w) == Msg("PlayerDisconnected", w, 0, 0, <<>>)
MsgUnregisteredClientDisconnected == Msg("UnregisteredClientDisconnected", 0, 0, 0, <<>>)
MsgPlayerName(w, n) == Msg("PlayerName", w, n, 0, <<>>)
MsgItemQueue(q) == Msg("ItemQueue", 0, 0, 0, q)
MsgGetItem(k) == Msg("GetItem", 0, 0, k, <<>>)

\* Mutant of Restrict: the players of the remaining clients are reset.
RestrictReset(f, S) == [x \in S |-> None]

\* ---------------------------------------------------------------- helpers
Restrict(f, S) == [x \in S |-> f[x]]

Range(s) == {s[i] : i \in 1..Len(s)}

\* queue.iter().map(|item| item.kind).collect()
KindsOf(queue) == [i \in 1..Len(queue) |-> queue[i].kind]

\* queue.iter().any(|item| item.source == source && item.key == key)
HasItem(queue, source, key) ==
    \E i \in 1..Len(queue) : queue[i].source = source /\ queue[i].key = key

\* ------------------------------------------------- writes and broadcasts
\* The room during one method call: the registry and the writes attempted so
\* far on each connection.  A call has a set of possible results: each write may succeed or fail,
\* and each self.clients.iter() may visit the clients in any order.
NoWrites == [c \in ClientIds \cup {1, 2, 3} |-> <<>>]

\* depth is the number of calls of remove_client in progress.
Ctx(cl) == [clients |-> cl, log |-> NoWrites, depth |-> 0]

\* One write attempt on c's connection, recorded in c's log together with
\* whether, at the time of the write, a registered client holds the world
\* that the message names.
Attempt(r, c, msg, ok) ==
    [r EXCEPT !.log[c] =
        Append(@, [msg |-> msg, ok |-> ok, depth |-> r.depth,
                   held |-> \E x \in DOMAIN r.clients :
                               /\ r.clients[x].world = msg.world
                               /\ msg.world # 0])]

RECURSIVE WriteAllFrom(_, _, _)
RECURSIVE RemoveClient(_, _)

\* Mutant of RemoveClient: PlayerDisconnected is sent for a client without
\* a world as well.
RemoveClientAnyWorld(r, c) ==
    IF c \in DOMAIN r.clients
    THEN LET removed == [r EXCEPT !.clients = Restrict(@, DOMAIN @ \ {c}),
                                  !.depth = @ + 1]
         IN {[done EXCEPT !.depth = r.depth] :
                done \in WriteAllFrom(removed,
                                      MsgPlayerDisconnected(r.clients[c].world), {})}
    ELSE {r}

\* Room::remove_client
RemoveClient(r, c) ==
    IF c \in DOMAIN r.clients
    THEN LET player == r.clients[c]
             msg == IF player # None THEN MsgPlayerDisconnected(player.world)
                    ELSE MsgUnregisteredClientDisconnected
             removed == [r EXCEPT !.clients = Restrict(@, DOMAIN @ \ {c}),
                                  !.depth = @ + 1]
         IN {[done EXCEPT !.depth = r.depth] :
                done \in WriteAllFrom(removed, msg, {})}
    ELSE {r}

\* Mutant of WriteOrRemove: a write that fails is logged, the client stays.
WriteOrRemoveKeep(r, c, msg) ==
    {Attempt(r, c, msg, TRUE), Attempt(r, c, msg, FALSE)}

\* msg.write(&mut *writer).await on a registered client, and the removal of
\* the client when the write is an Err.
WriteOrRemove(r, c, msg) ==
    {Attempt(r, c, msg, TRUE)} \cup RemoveClient(Attempt(r, c, msg, FALSE), c)

\* Mutant of WriteAllFrom: the loop ends at the first write that fails.
WriteAllFromStop(r, msg, notified) ==
    LET pending == DOMAIN r.clients \ notified
    IN IF pending = {} THEN {r}
       ELSE UNION {UNION {WriteAllFrom(next, msg, notified \cup {c}) :
                          next \in {Attempt(r, c, msg, TRUE)}}
                   \cup RemoveClient(Attempt(r, c, msg, FALSE), c) : c \in pending}

\* The loop of Room::write_all, with `notified` as its loop variable.
WriteAllFrom(r, msg, notified) ==
    LET pending == DOMAIN r.clients \ notified
    IN IF pending = {} THEN {r}
       ELSE UNION {UNION {WriteAllFrom(next, msg, notified \cup {c}) :
                          next \in WriteOrRemove(r, c, msg)} : c \in pending}

\* Room::write_all
WriteAll(r, msg) == WriteAllFrom(r, msg, {})

\* Room::write
Write(r, c, msg) ==
    IF c \in DOMAIN r.clients THEN WriteOrRemove(r, c, msg) ELSE {r}

\* for target_client in player_clients { self.write(target_client, &msg).await }
\* with player_clients collected in any iteration order
RECURSIVE WriteEach(_, _, _)
WriteEach(r, targets, msg) ==
    IF targets = {} THEN {r}
    ELSE UNION {UNION {WriteEach(next, targets \ {c}, msg) :
                       next \in Write(r, c, msg)} : c \in targets}

\* ------------------------------------------------------- the client side
\* RoomClient (crate multiworld-csharp): players, kept sorted by world, is a
\* function from world to name; num_unassigned_clients is a u8.
RoomClient(players, num, items) ==
    [players |-> players, num_unassigned_clients |-> num, item_queue |-> items]

\* The room snapshot EnterRoom { players, num_unassigned_clients } that a
\* client starts from: the players and the number of clients without a
\* world of the registry, the new client counted.
EnterRoom(cl) ==
    RoomClient([w \in {cl[x].world : x \in {y \in DOMAIN cl : cl[y] # None}} |->
                   cl[CHOOSE x \in DOMAIN cl : cl[x].world = w].name],
               Cardinality({x \in DOMAIN cl : cl[x] = None}), <<>>)

\* room_client_apply_message
ApplyMessage(rc, msg) ==
    LET known == msg.world \in DOMAIN rc.players
        others == DOMAIN rc.players \ {msg.world}
    IN CASE msg.type = "PlayerId" ->
              IF ~known
              THEN [rc EXCEPT
                      !.players = [w \in DOMAIN @ \cup {msg.world} |->
                                      IF w = msg.world THEN DEFAULT_NAME ELSE @[w]],
                      !.num_unassigned_clients = (@ - 1) % 256]
              ELSE rc
         [] msg.type = "ResetPlayerId" ->
              IF known
              THEN [rc EXCEPT !.players = Restrict(@, others),
                              !.num_unassigned_clients = (@ + 1) % 256]
              ELSE rc
         [] msg.type = "ClientConnected" ->
              [rc EXCEPT !.num_unassigned_clients = (@ + 1) % 256]
         [] msg.type = "PlayerDisconnected" ->
              IF known THEN [rc EXCEPT !.players = Restrict(@, others)] ELSE rc
         [] msg.type = "UnregisteredClientDisconnected" ->
              [rc EXCEPT !.num_unassigned_clients = (@ - 1) % 256]
         [] msg.type = "PlayerName" ->
              IF known THEN [rc EXCEPT !.players[msg.world] = msg.name] ELSE rc
         [] msg.type = "ItemQueue" -> [rc EXCEPT !.item_queue = msg.queue]
         [] msg.type = "GetItem" -> [rc EXCEPT !.item_queue = Append(@, msg.kind)]

\* The messages of a log applied in the order they were written.
RECURSIVE ApplyAll(_, _)
ApplyAll(rc, log) ==
    IF log = <<>> THEN rc ELSE ApplyAll(ApplyMessage(rc, Head(log).msg), Tail(log))

\* The RoomClients after a call that leaves the registry cl and wrote the
\* logs s: a client that is still registered has received all that was
\* written to it, a new client starts from the snapshot.
Views(v, cl, s) ==
    [x \in DOMAIN cl |->
        IF x \in DOMAIN v THEN ApplyAll(v[x], s[x]) ELSE EnterRoom(cl)]

\* ---------------------------------------------------------- connect_sync
\* Host
Hosts == {"DefaultIpv6", "DefaultIpv4", "Custom"}

\* u8, the type of the version sent and read
Versions == 0..255

\* The names of the rooms a server may list.
RoomNames == {"a", "b"}

\* connect_sync has not been called yet.
NotConnected ==
    [pc |-> "start", host |-> "", server_version |-> -1, wire |-> <<>>,
     stream |-> "", result |-> [type |-> ""]]

\* Result::Err(ClientError::...): Io, Read and Write carry no version.
Err(type, version) == [type |-> type, version |-> version]

\* Result::Ok((tcp_stream, rooms))
Ok(stream, rooms) == [type |-> "Ok", stream |-> stream, rooms |-> rooms]

\* The return of connect_sync.
Finish(c, result) == [c EXCEPT !.pc = "done", !.result = result]

\* What went over the wire, in order.
Wire(c, what) == [c EXCEPT !.wire = Append(@, what)]

RoomIdle ==
    UNCHANGED <<clients, base_queue, player_queues, sent, op, accepted, view,
                listener, session, released>>

\* host.into_host()?, TcpStream::connect(&host)? and the two timeouts
HsConnect(host) ==
    /\ conn.pc = "start"
    /\ \/ conn' = [conn EXCEPT !.pc = "connected", !.host = host]
       \/ conn' = Finish([conn EXCEPT !.host = host], Err("Io", 0))
    /\ RoomIdle

\* VERSION.write_sync(&mut tcp_stream)?
HsWriteVersion ==
    /\ conn.pc = "connected"
    /\ \/ conn' = [Wire(conn, [sent |-> "version", version |-> VERSION])
                     EXCEPT !.pc = "version_written"]
       \/ conn' = Finish(conn, Err("Write", 0))
    /\ RoomIdle

\* let server_version = u8::read_sync(&mut tcp_stream)?
HsReadVersion ==
    /\ conn.pc = "version_written"
    /\ \/ \E v \in Versions :
             conn' = [Wire(conn, [read |-> "version", version |-> v])
                        EXCEPT !.pc = "version_read", !.server_version = v]
       \/ conn' = Finish(conn, Err("Read", 0))
    /\ RoomIdle

\* Mutant of VersionDiffers: only an older peer is refused.
VersionDiffersOlder(server_version) == server_version < VERSION

\* if server_version != VERSION
VersionDiffers(server_version) == server_version # VERSION

\* if server_version != VERSION { return Err(ClientError::VersionMismatch(server_version)) }
HsCheckVersion ==
    /\ conn.pc = "version_read"
    /\ conn' = IF VersionDiffers(conn.server_version)
               THEN Finish(conn, Err("VersionMismatch", conn.server_version))
               ELSE [conn EXCEPT !.pc = "version_checked"]
    /\ RoomIdle

\* Mutant of IsDefault: Host::DefaultIpv6 is left out of the pattern.
IsDefaultIpv4Only(host) == host = "DefaultIpv4"

\* matches!(host, Host::DefaultIpv4 | Host::DefaultIpv6)
IsDefault(host) == host \in {"DefaultIpv4", "DefaultIpv6"}

\* The choice of the stream: Encrypt is written and the stream wrapped in a
\* rustls session for a default host, the stream is left as it is otherwise.
HsEncrypt ==
    /\ conn.pc = "version_checked"
    /\ IF IsDefault(conn.host)
       THEN \/ conn' = [Wire(conn, [sent |-> "Encrypt"])
                          EXCEPT !.pc = "stream_chosen", !.stream = "Encrypted"]
            \/ conn' = Finish(conn, Err("Write", 0))
       ELSE conn' = [conn EXCEPT !.pc = "stream_chosen", !.stream = "Unencrypted"]
    /\ RoomIdle

\* let rooms = BTreeSet::read_sync(&mut tcp_stream)?; Ok((tcp_stream, rooms))
HsReadRooms ==
    /\ conn.pc = "stream_chosen"
    /\ \/ \E rooms \in SUBSET RoomNames :
             conn' = Finish(Wire(conn, [read |-> "rooms", rooms |-> rooms]),
                            Ok(conn.stream, rooms))
       \/ conn' = Finish(conn, Err("Read", 0))
    /\ RoomIdle

\* connect_sync
ConnectSync ==
    \/ \E host \in Hosts : HsConnect(host)
    \/ HsWriteVersion
    \/ HsReadVersion
    \/ HsCheckVersion
    \/ HsEncrypt
    \/ HsReadRooms

\* ---------------------------------------------------------- Pj64Listener
\* ClientMessage (crate multiworld-pj64-gui): one value of each variant.
ClientMessages ==
    {[type |-> "PlayerId", world |-> 1],
     [type |-> "PlayerName", name |-> 1],
     [type |-> "SendItem", key |-> 1, kind |-> 1, target_world |-> 1]}

\* The stream has not been polled yet.  MW_PJ64_PROTO_VERSION is set in the
\* root of the crate; the stream is modelled for any value of it, taken
\* when the listener is bound.
NotListening ==
    [pc |-> "start", version |-> -1, client_version |-> -1, wire |-> <<>>,
     out |-> <<>>]

\* Message::Pj64Connected(writer)
Pj64Connected == [type |-> "Pj64Connected"]

\* Message::Plugin(msg)
Plugin(msg) == [type |-> "Plugin", msg |-> msg]

\* Message::Pj64SubscriptionError(e), with e an Error: VersionMismatch
\* carries the version read, the I/O errors carry none.
Pj64SubscriptionError(error, version) ==
    [type |-> "Pj64SubscriptionError", error |-> error, version |-> version]

\* The next item of the stream.
Emit(l, message) == [l EXCEPT !.out = Append(@, message)]

\* An Err item: map turns it into Pj64SubscriptionError, and the stream
\* ends (once has been used up, try_unfold ends on Err).
Fail(l, error, version) ==
    [Emit(l, Pj64SubscriptionError(error, version)) EXCEPT !.pc = "done"]

PjIdle ==
    UNCHANGED <<clients, base_queue, player_queues, sent, op, accepted, view,
                conn, session, released>>

\* stream::once(TcpListener::bind((Ipv4Addr::LOCALHOST, 24818)))
PjBind ==
    /\ listener.pc = "start"
    /\ \E v \in Versions :
          \/ listener' = [listener EXCEPT !.pc = "bound", !.version = v]
          \/ listener' = Fail([listener EXCEPT !.version = v], "Io", 0)
    /\ PjIdle

\* listener.accept().await
PjAccept ==
    /\ listener.pc = "bound"
    /\ \/ listener' = [listener EXCEPT !.pc = "accepted"]
       \/ listener' = Fail(listener, "Io", 0)
    /\ PjIdle

\* MW_PJ64_PROTO_VERSION.write(&mut tcp_stream).await?
PjWriteVersion ==
    /\ listener.pc = "accepted"
    /\ \/ listener' = [Wire(listener, [sent |-> "version",
                                        version |-> listener.version])
                          EXCEPT !.pc = "version_written"]
       \/ listener' = Fail(listener, "Write", 0)
    /\ PjIdle

\* let client_version = u8::read(&mut tcp_stream).await?
PjReadVersion ==
    /\ listener.pc = "version_written"
    /\ \/ \E v \in Versions :
             listener' = [Wire(listener, [read |-> "version", version |-> v])
                            EXCEPT !.pc = "version_read", !.client_version = v]
       \/ listener' = Fail(listener, "Read", 0)
    /\ PjIdle

\* Mutant of PjVersionDiffers: only an older client is refused.
PjVersionDiffersOlder(client_version, version) == client_version < version

\* if client_version != MW_PJ64_PROTO_VERSION
PjVersionDiffers(client_version, version) == client_version # version

\* if client_version != MW_PJ64_PROTO_VERSION { return Err(Error::VersionMismatch(client_version)) }
\* let (reader, writer) = tcp_stream.into_split();
PjCheckVersion ==
    /\ listener.pc = "version_read"
    /\ listener' = IF PjVersionDiffers(listener.client_version, listener.version)
                   THEN Fail(listener, "VersionMismatch", listener.client_version)
                   ELSE [listener EXCEPT !.pc = "split"]
    /\ PjIdle

\* stream::once(future::ok(Message::Pj64Connected(...)))
PjConnected ==
    /\ listener.pc = "split"
    /\ listener' = [Emit(listener, Pj64Connected) EXCEPT !.pc = "reading"]
    /\ PjIdle

\* The number of Plugin messages emitted.
Plugins(l) == Cardinality({i \in 1..Len(l.out) : l.out[i].type = "Plugin"})

\* stream::try_unfold(reader, ...): Message::Plugin(ClientMessage::read(&mut reader).await?)
PjPlugin ==
    /\ listener.pc = "reading"
    /\ Plugins(listener) < MaxPlugin
    /\ \/ \E msg \in ClientMessages :
             listener' = Emit(Wire(listener, [read |-> "ClientMessage", msg |-> msg]),
                              Plugin(msg))
       \/ listener' = Fail(listener, "Read", 0)
    /\ PjIdle

\* Pj64Listener::stream
Pj64Listener ==
    \/ PjBind
    \/ PjAccept
    \/ PjWriteVersion
    \/ PjReadVersion
    \/ PjCheckVersion
    \/ PjConnected
    \/ PjPlugin

\* ------------------------------------------------------------------ Init
Call(name, c, world, pname, key, kind, ret) ==
    [name |-> name, client |-> c, world |-> world, pname |-> pname,
     key |-> key, kind |-> kind, ret |-> ret]

\* No call is in progress.
Idle == Call("idle", 0, 0, 0, 0, 0, TRUE)

Init ==
    /\ clients = <<>>
    /\ base_queue = <<>>
    /\ player_queues = <<>>
    /\ sent = NoWrites
    /\ op = Idle
    /\ accepted = {}
    /\ view = <<>>
    /\ conn = NotConnected
    /\ listener = NotListening
    /\ session = <<>>
    /\ released = <<>>

\* --------------------------------------------------------------- actions
\* Mutant of AddClient: the client is inserted before the broadcast.
AddClientFirst(c) ==
    /\ op = Idle
    /\ c \notin DOMAIN clients
    /\ \E r \in WriteAll(Ctx([x \in DOMAIN clients \cup {c} |->
                                 IF x = c THEN None ELSE clients[x]]),
                         MsgClientConnected) :
          /\ clients' = r.clients
          /\ sent' = r.log
    /\ op' = Call("add_client", c, 0, 0, 0, 0, TRUE)
    /\ UNCHANGED <<base_queue, player_queues, accepted>>

\* Room::add_client
AddClient(c) ==
    /\ op = Idle
    /\ c \notin DOMAIN clients
    /\ \E r \in WriteAll(Ctx(clients), MsgClientConnected) :
          /\ clients' = [x \in DOMAIN r.clients \cup {c} |->
                            IF x = c THEN None ELSE r.clients[x]]
          /\ sent' = r.log
    /\ op' = Call("add_client", c, 0, 0, 0, 0, TRUE)
    /\ UNCHANGED <<base_queue, player_queues, accepted>>

\* Room::remove_client, called for a registered client
Disconnect(c) ==
    /\ op = Idle
    /\ c \in DOMAIN clients
    /\ \E r \in RemoveClient(Ctx(clients), c) :
          /\ clients' = r.clients
          /\ sent' = r.log
    /\ op' = Call("remove_client", c, 0, 0, 0, 0, TRUE)
    /\ UNCHANGED <<base_queue, player_queues, accepted>>

\* Mutant of HeldByOther: `iter_client_id == client_id` for `!=`.
HeldByOtherSelf(cl, c, world) ==
    \E x \in DOMAIN cl : cl[x] # None /\ cl[x].world = world /\ x = c

\* Mutant of HeldByOther: the check is made only for a claimant without a world.
HeldByOtherIfUnassigned(cl, c, world) ==
    /\ cl[c] = None
    /\ \E x \in DOMAIN cl : cl[x] # None /\ cl[x].world = world /\ x # c

\* clients.iter().any(|(id, (p, _))| p.world == world && id != client_id)
HeldByOther(cl, c, world) ==
    \E x \in DOMAIN cl : cl[x] # None /\ cl[x].world = world /\ x # c

\* Mutant of QueueFor: the player queue of the world is ignored.
QueueForBase(world) == base_queue

\* self.player_queues.get(&world).unwrap_or(&self.base_queue)
QueueFor(world) ==
    IF world \in DOMAIN player_queues THEN player_queues[world] ELSE base_queue

\* Mutant of AnnouncePlayer: the claimant is sent no ItemQueue.
AnnouncePlayerNoQueue(r, c, world) == WriteAll(r, MsgPlayerId(world))

\* Room::load_player from the second write_all on: the PlayerId broadcast and
\* the ItemQueue for the claimant
AnnouncePlayer(r, c, world) ==
    LET queue == KindsOf(QueueFor(world))
    IN UNION {IF queue # <<>> THEN Write(r2, c, MsgItemQueue(queue)) ELSE {r2} :
              r2 \in WriteAll(r, MsgPlayerId(world))}

\* Mutant of LoadPlayerBody: the previous world is not announced as released.
LoadPlayerBodyNoReset(c, world) ==
    LET prev == clients[c]
    IN IF prev # None
       THEN AnnouncePlayer(Ctx([clients EXCEPT ![c].world = world]), c, world)
       ELSE AnnouncePlayer(Ctx([clients EXCEPT ![c] = NewPlayer(world)]), c, world)

\* Room::load_player, after the check that no other client holds `world` and
\* that the client does not hold it already
LoadPlayerBody(c, world) ==
    LET prev == clients[c]
    IN IF prev # None
       THEN UNION {AnnouncePlayer(r1, c, world) :
                   r1 \in WriteAll(Ctx([clients EXCEPT ![c].world = world]),
                                   MsgResetPlayerId(prev.world))}
       ELSE AnnouncePlayer(Ctx([clients EXCEPT ![c] = NewPlayer(world)]), c, world)

\* Mutant of LoadPlayer: no early return when the client holds the world
\* already (the `if prev_world == world { return true }` is left out).
LoadPlayerAgain(c, world) ==
    /\ op = Idle
    /\ c \in DOMAIN clients
    /\ IF HeldByOther(clients, c, world)
       THEN /\ op' = Call("load_player", c, world, 0, 0, 0, FALSE)
            /\ sent' = NoWrites
            /\ UNCHANGED clients
       ELSE /\ op' = Call("load_player", c, world, 0, 0, 0, TRUE)
            /\ \E r \in LoadPlayerBody(c, world) :
                  /\ sent' = r.log
                  /\ clients' = r.clients
    /\ UNCHANGED <<base_queue, player_queues, accepted>>

\* Room::load_player
LoadPlayer(c, world) ==
    /\ op = Idle
    /\ c \in DOMAIN clients
    /\ IF HeldByOther(clients, c, world)
       THEN /\ op' = Call("load_player", c, world, 0, 0, 0, FALSE)
            /\ sent' = NoWrites
            /\ UNCHANGED clients
       ELSE /\ op' = Call("load_player", c, world, 0, 0, 0, TRUE)
            /\ IF clients[c] # None /\ clients[c].world = world
               THEN /\ sent' = NoWrites
                    /\ UNCHANGED clients
               ELSE \E r \in LoadPlayerBody(c, world) :
                       /\ sent' = r.log
                       /\ clients' = r.clients
    /\ UNCHANGED <<base_queue, player_queues, accepted>>

\* Mutant of UnloadPlayer: the player is read, not taken (as_ref for take).
UnloadPlayerKeep(c) ==
    /\ op = Idle
    /\ c \in DOMAIN clients
    /\ IF clients[c] # None
       THEN \E r \in WriteAll(Ctx(clients), MsgResetPlayerId(clients[c].world)) :
               /\ sent' = r.log
               /\ clients' = r.clients
       ELSE /\ sent' = NoWrites
            /\ UNCHANGED clients
    /\ op' = Call("unload_player", c, 0, 0, 0, 0, TRUE)
    /\ UNCHANGED <<base_queue, player_queues, accepted>>

\* Room::unload_player
UnloadPlayer(c) ==
    /\ op = Idle
    /\ c \in DOMAIN clients
    /\ IF clients[c] # None
       THEN \E r \in WriteAll(Ctx([clients EXCEPT ![c] = None]),
                              MsgResetPlayerId(clients[c].world)) :
               /\ sent' = r.log
               /\ clients' = r.clients
       ELSE /\ sent' = NoWrites
            /\ UNCHANGED clients
    /\ op' = Call("unload_player", c, 0, 0, 0, 0, TRUE)
    /\ UNCHANGED <<base_queue, player_queues, accepted>>

\* Mutant of SetPlayerName: the name is broadcast but not stored.
SetPlayerNameNoStore(c, name) ==
    /\ op = Idle
    /\ c \in DOMAIN clients
    /\ IF clients[c] # None
       THEN /\ \E r \in WriteAll(Ctx(clients), MsgPlayerName(clients[c].world, name)) :
                  /\ sent' = r.log
                  /\ clients' = r.clients
            /\ op' = Call("set_player_name", c, 0, name, 0, 0, TRUE)
       ELSE /\ sent' = NoWrites
            /\ UNCHANGED clients
            /\ op' = Call("set_player_name", c, 0, name, 0, 0, FALSE)
    /\ UNCHANGED <<base_queue, player_queues, accepted>>

\* Room::set_player_name
SetPlayerName(c, name) ==
    /\ op = Idle
    /\ c \in DOMAIN clients
    /\ IF clients[c] # None
       THEN /\ \E r \in WriteAll(Ctx([clients EXCEPT ![c].name = name]),
                                 MsgPlayerName(clients[c].world, name)) :
                  /\ sent' = r.log
                  /\ clients' = r.clients
            /\ op' = Call("set_player_name", c, 0, name, 0, 0, TRUE)
       ELSE /\ sent' = NoWrites
            /\ UNCHANGED clients
            /\ op' = Call("set_player_name", c, 0, name, 0, 0, FALSE)
    /\ UNCHANGED <<base_queue, player_queues, accepted>>

\* Mutant of SharedTargets: `p.world != source` is left out.
SharedTargetsAll(cl, source) == {x \in DOMAIN cl : cl[x] # None}

\* The clients a new shared item is sent to:
\* filter_map(|(id, (p, _))| if p.map_or(false, |p| p.world != source) ...)
SharedTargets(cl, source) ==
    {x \in DOMAIN cl : cl[x] # None /\ cl[x].world # source}

\* The clients a world-specific item is sent to (find: at most one of them):
\* clients.iter().find(|(_, (p, _))| p.map_or(false, |p| p.world == target_world))
Holders(cl, world) ==
    {x \in DOMAIN cl : cl[x] # None /\ cl[x].world = world}

\* for queue in self.player_queues.values_mut() { queue.push(item) }
PushAll(queues, item) == [w \in DOMAIN queues |-> Append(queues[w], item)]

\* Mutant of PushFork: a new player queue starts empty (Vec::new for
\* base_queue.clone()).
PushForkEmpty(queues, base, world, item) ==
    [w \in DOMAIN queues \cup {world} |->
        IF w = world
        THEN Append(IF world \in DOMAIN queues THEN queues[world] ELSE <<>>, item)
        ELSE queues[w]]

\* player_queues.entry(target_world).or_insert_with(|| base_queue.clone()).push(item)
PushFork(queues, base, world, item) ==
    [w \in DOMAIN queues \cup {world} |->
        IF w = world
        THEN Append(IF world \in DOMAIN queues THEN queues[world] ELSE base, item)
        ELSE queues[w]]

\* Mutant of SharedIsNew: only the last item of base_queue is compared.
SharedIsNewLast(source, key) ==
    \/ base_queue = <<>>
    \/ ~HasItem(<<base_queue[Len(base_queue)]>>, source, key)

\* Mutant of SharedIsNew: the key is compared with the item's kind.
SharedIsNewKind(source, key) ==
    ~\E i \in 1..Len(base_queue) :
        base_queue[i].source = source /\ base_queue[i].kind = key

\* The check before a shared item is pushed
SharedIsNew(source, key) == ~HasItem(base_queue, source, key)

\* Mutant of SpecificIsNew: base_queue is searched for the player queue.
SpecificIsNewBase(source, key, world) == ~HasItem(base_queue, source, key)

\* The check before a world-specific item is pushed
SpecificIsNew(source, key, world) ==
    ~(world \in DOMAIN player_queues /\ HasItem(player_queues[world], source, key))

ItemId(source, key, world) == [source |-> source, key |-> key, target |-> world]

\* Room::queue_item, shared kind
QueueShared(c, key, kind) ==
    LET source == clients[c].world
        item == Item(source, key, kind)
    IN IF SharedIsNew(source, key)
       THEN /\ base_queue' = Append(base_queue, item)
            /\ player_queues' = PushAll(player_queues, item)
            /\ \E r \in WriteEach(Ctx(clients), SharedTargets(clients, source),
                                  MsgGetItem(kind)) :
                  /\ sent' = r.log
                  /\ clients' = r.clients
       ELSE /\ sent' = NoWrites
            /\ UNCHANGED <<clients, base_queue, player_queues>>

\* Room::queue_item, any other kind
QueueSpecific(c, key, kind, world) ==
    LET source == clients[c].world
        item == Item(source, key, kind)
        holders == Holders(clients, world)
    IN IF SpecificIsNew(source, key, world)
       THEN /\ player_queues' = PushFork(player_queues, base_queue, world, item)
            /\ accepted' = accepted \cup {ItemId(source, key, world)}
            /\ \E r \in (IF holders # {}
                         THEN UNION {Write(Ctx(clients), h, MsgGetItem(kind)) :
                                     h \in holders}
                         ELSE {Ctx(clients)}) :
                  /\ sent' = r.log
                  /\ clients' = r.clients
       ELSE /\ sent' = NoWrites
            /\ UNCHANGED <<clients, player_queues, accepted>>

\* The model stops queueing when a queue is `cap` long.
QueueRoom(cap) ==
    /\ Len(base_queue) < cap
    /\ \A w \in DOMAIN player_queues : Len(player_queues[w]) < cap

\* Mutant of QueueItem: the sender's Option<Player> is not matched, a sender
\* without a world sends as world 0.
QueueItemUnchecked(c, key, kind, world) ==
    /\ op = Idle
    /\ c \in DOMAIN clients
    /\ op' = Call("queue_item", c, world, 0, key, kind, TRUE)
    /\ IF kind = TRIFORCE_PIECE
       THEN /\ QueueShared(c, key, kind)
            /\ UNCHANGED accepted
       ELSE /\ QueueSpecific(c, key, kind, world)
            /\ UNCHANGED base_queue

\* Room::queue_item
QueueItem(c, key, kind, world) ==
    /\ op = Idle
    /\ c \in DOMAIN clients
    /\ IF clients[c] # None
       THEN /\ op' = Call("queue_item", c, world, 0, key, kind, TRUE)
            /\ IF kind = TRIFORCE_PIECE
               THEN /\ QueueShared(c, key, kind)
                    /\ UNCHANGED accepted
               ELSE /\ QueueSpecific(c, key, kind, world)
                    /\ UNCHANGED base_queue
       ELSE /\ op' = Call("queue_item", c, world, 0, key, kind, FALSE)
            /\ sent' = NoWrites
            /\ UNCHANGED <<clients, base_queue, player_queues, accepted>>

\* The call returns and the room is free for the next call; the record
\* of the finished call is dropped.
Return ==
    /\ op # Idle
    /\ op' = Idle
    /\ sent' = NoWrites
    /\ UNCHANGED <<clients, base_queue, player_queues, accepted, view, conn,
                   listener, session, released>>

\* -------------------------------------------------------------- sessions
\* The task that serves a connection calls add_client when the connection
\* has joined the room, then one method of the Room for each message it
\* reads, and remove_client when the connection ends.  A write failure in a
\* broadcast of another task removes the client from the registry and
\* leaves the task running.
Running(c) == c \in DOMAIN session /\ session[c] = "running"

\* The client of a running task is no longer in the registry.
Gone(c) == Running(c) /\ c \notin DOMAIN clients

\* The task of a new connection.
StartSession(c) ==
    /\ c \notin DOMAIN session
    /\ session' = [x \in DOMAIN session \cup {c} |->
                      IF x = c THEN "running" ELSE session[x]]

\* The task of the connection ends with its remove_client.
EndSession(c) ==
    /\ Running(c)
    /\ session' = Restrict(session, DOMAIN session \ {c})

\* expect("no such client") on a client that is not in the registry: the
\* call panics, inside the task that made it.
Panic(c) ==
    /\ session' = [session EXCEPT ![c] = "panicked"]
    /\ UNCHANGED <<clients, base_queue, player_queues, sent, op, accepted>>

\* Room::remove_client for a client that is not in the registry: nothing is
\* removed, nothing is written.
RemoveGone(c) ==
    /\ op = Idle
    /\ Gone(c)
    /\ op' = Call("remove_client", c, 0, 0, 0, 0, TRUE)
    /\ sent' = NoWrites
    /\ UNCHANGED <<clients, base_queue, player_queues, accepted>>

\* Room::load_player for a client that is not in the registry: false when
\* another client holds the world, else the expect fails.
LoadPlayerGone(c, world) ==
    /\ op = Idle
    /\ Gone(c)
    /\ IF HeldByOther(clients, c, world)
       THEN /\ op' = Call("load_player", c, world, 0, 0, 0, FALSE)
            /\ sent' = NoWrites
            /\ UNCHANGED <<clients, base_queue, player_queues, accepted, session>>
       ELSE Panic(c)

\* Room::unload_player, set_player_name and queue_item for a client that is
\* not in the registry: the expect fails.
NoSuchClient(c) ==
    /\ op = Idle
    /\ Gone(c)
    /\ Panic(c)

\* The room and the tasks of its connections.
Serving == UNCHANGED <<view, conn, listener, released>>

Served == Serving /\ UNCHANGED session

CallsOfSessions(C, W, N, Kd, cap) ==
    \E c \in C :
        \/ AddClient(c) /\ StartSession(c) /\ Serving
        \/ Disconnect(c) /\ EndSession(c) /\ Serving
        \/ RemoveGone(c) /\ EndSession(c) /\ Serving
        \/ \E w \in W : LoadPlayer(c, w) /\ Served
        \/ \E w \in W : LoadPlayerGone(c, w) /\ Serving
        \/ UnloadPlayer(c) /\ Served
        \/ \E n \in N : SetPlayerName(c, n) /\ Served
        \/ /\ QueueRoom(cap)
           /\ \E k \in Keys, kd \in Kd, w \in W : QueueItem(c, k, kd, w)
           /\ Served
        \/ NoSuchClient(c) /\ Serving

\* ------------------------------------------------------- released worlds
\* The worlds that a client of registry cl holds.
Holding(cl) == {x \in DOMAIN cl : cl[x] # None}

Held(cl) == {cl[x].world : x \in Holding(cl)}

\* The queue a claimant of the world is sent: its fork, else base_queue.
QueueOf(pq, bq, world) == IF world \in DOMAIN pq THEN pq[world] ELSE bq

\* The history of the released worlds after a call that took the registry
\* from cl to cl2 and the queues from (pq, bq) to (pq2, bq2).  A world whose
\* holder was removed, or released or left it, is unclaimed from then on,
\* with no item yet; an unclaimed world collects the items appended to its
\* queue; when a client holds it again it is reclaimed.
ReleasedAfter(rel, cl, cl2, pq, bq, pq2, bq2) ==
    LET left == {cl[x].world :
                    x \in {y \in Holding(cl) :
                              \/ y \notin DOMAIN cl2
                              \/ cl2[y].world # cl[y].world}}
        new(w) == LET old == QueueOf(pq, bq, w)
                      now == QueueOf(pq2, bq2, w)
                  IN {now[i] : i \in (Len(old) + 1)..Len(now)}
    IN [w \in DOMAIN rel \cup left |->
           IF w \in left THEN [state |-> "unclaimed", items |-> {}]
           ELSE IF rel[w].state = "unclaimed"
           THEN IF w \in Held(cl2)
                THEN [rel[w] EXCEPT !.state = "reclaimed"]
                ELSE [rel[w] EXCEPT !.items = @ \cup new(w)]
           ELSE rel[w]]

\* The room, with the history of its released worlds.
Releasing ==
    /\ released' = ReleasedAfter(released, clients, clients', player_queues,
                                 base_queue, player_queues', base_queue')
    /\ UNCHANGED <<view, conn, listener, session>>

CallsReleasing(C, W, N, Kd, cap) ==
    \E c \in C :
        \/ AddClient(c) /\ Releasing
        \/ Disconnect(c) /\ Releasing
        \/ \E w \in W : LoadPlayer(c, w) /\ Releasing
        \/ UnloadPlayer(c) /\ Releasing
        \/ \E n \in N : SetPlayerName(c, n) /\ Releasing
        \/ /\ QueueRoom(cap)
           /\ \E k \in Keys, kd \in Kd, w \in W : QueueItem(c, k, kd, w)
           /\ Releasing

\* ------------------------------------------------------------------ Next
\* Any call, by a connection of C, with worlds of W, names of N and item
\* kinds of Kd, queueing items up to length cap.
\* The room alone: the RoomClients are left out.
Alone == UNCHANGED <<view, conn, listener, session, released>>

\* The model makes no further call when the count of a RoomClient is above
\* MaxUnassigned.
ViewRoom == \A x \in DOMAIN view : view[x].num_unassigned_clients <= MaxUnassigned

\* The room and its clients, which apply the messages of a call as they
\* receive them.
Received ==
    /\ ViewRoom
    /\ view' = Views(view, clients', sent')
    /\ UNCHANGED <<conn, listener, session, released>>

Calls(C, W, N, Kd, cap) ==
    \E c \in C :
        \/ AddClient(c) /\ Alone
        \/ Disconnect(c) /\ Alone
        \/ \E w \in W : LoadPlayer(c, w) /\ Alone
        \/ UnloadPlayer(c) /\ Alone
        \/ \E n \in N : SetPlayerName(c, n) /\ Alone
        \/ /\ QueueRoom(cap)
           /\ \E k \in Keys, kd \in Kd, w \in W : QueueItem(c, k, kd, w)
           /\ Alone

CallsWithClients(C, W, N, Kd, cap) ==
    \E c \in C :
        \/ AddClient(c) /\ Received
        \/ Disconnect(c) /\ Received
        \/ \E w \in W : LoadPlayer(c, w) /\ Received
        \/ UnloadPlayer(c) /\ Received
        \/ \E n \in N : SetPlayerName(c, n) /\ Received
        \/ /\ QueueRoom(cap)
           /\ \E k \in Keys, kd \in Kd, w \in W : QueueItem(c, k, kd, w)
           /\ Received

\* All connections, short queues.
Next == Calls(ClientIds, Worlds, Names, Kinds, 2) \/ Return

Spec == Init /\ [][Next]_vars

\* Two connections, long queues.
NextQ == Calls({1, 2}, Worlds, Names, Kinds, MaxQueue) \/ Return

SpecQ == Init /\ [][NextQ]_vars

\* Three connections and three worlds, one shared item.
NextW == Calls({1, 2, 3}, {1, 2, 3}, {DEFAULT_NAME}, {TRIFORCE_PIECE}, 1) \/ Return

SpecW == Init /\ [][NextW]_vars

\* Two connections with their RoomClients, two worlds, one shared item.
NextV ==
    CallsWithClients({1, 2}, Worlds, {DEFAULT_NAME}, {TRIFORCE_PIECE}, 1) \/ Return

SpecV == Init /\ [][NextV]_vars

\* Two connections and their RoomClients, items of both kinds.
NextI ==
    CallsWithClients({1, 2}, Worlds, {DEFAULT_NAME}, Kinds, 1) \/ Return

SpecI == Init /\ [][NextI]_vars

\* Two connections and their RoomClients, players of both names.
NextN ==
    CallsWithClients({1, 2}, Worlds, Names, {TRIFORCE_PIECE}, 1) \/ Return

SpecN == Init /\ [][NextN]_vars

\* Two connections, and the worlds they leave and claim again.
NextR ==
    CallsReleasing({1, 2}, Worlds, {DEFAULT_NAME}, Kinds, 2) \/ Return

SpecR == Init /\ [][NextR]_vars

\* Two connections and the tasks that serve them.
NextL ==
    CallsOfSessions({1, 2}, Worlds, {DEFAULT_NAME}, {TRIFORCE_PIECE}, 1) \/ Return

SpecL == Init /\ [][NextL]_vars

\* One call of connect_sync, against any server.
SpecH == Init /\ [][ConnectSync]_vars

\* The stream of Pj64Listener, with any client.
SpecP == Init /\ [][Pj64Listener]_vars

\* ================================================================ claims
\* Shorthands of the claims below.
Registered(cl) == DOMAIN cl

Assigned(cl) == {x \in DOMAIN cl : cl[x].world # 0}

\* The positions of queue q that hold an item found by `source` under `key`.
Matches(q, source, key) ==
    {i \in 1..Len(q) : q[i].source = source /\ q[i].key = key}

NoDuplicate(q) ==
    \A i, j \in 1..Len(q) :
        (q[i].source = q[j].source /\ q[i].key = q[j].key) => i = j

\* The number of writes of a message of `type` attempted on one connection.
CountOf(log, type) == Cardinality({i \in 1..Len(log) : log[i].msg.type = type})

\* The same, counting only the writes that succeeded.
CountOk(log, type) ==
    Cardinality({i \in 1..Len(log) : log[i].msg.type = type /\ log[i].ok})

NothingSent(s) == \A x \in DOMAIN s : s[x] = <<>>

\* a is a subsequence of b, the order kept.
RECURSIVE IsSubseq(_, _)
IsSubseq(a, b) ==
    IF a = <<>> THEN TRUE
    ELSE IF b = <<>> THEN FALSE
    ELSE IF Head(a) = Head(b) THEN IsSubseq(Tail(a), Tail(b))
    ELSE IsSubseq(a, Tail(b))

\* ---------------------------------------------------------------- C1
\* C1: in every reachable state at most one registered client holds any
\* given world.
C1_OneHolderPerWorld ==
    \A x, y \in Registered(clients) :
        (clients[x].world # 0 /\ clients[x].world = clients[y].world) => x = y

\* Two clients hold (different) worlds, the second by a claim that succeeded.
C1_Witness ==
    /\ op.name = "load_player" /\ op.ret
    /\ Cardinality(Assigned(clients)) = 2

\* ---------------------------------------------------------------- C2
\* C2: load_player(c, w) while another registered client holds w returns
\* false and changes nothing: the registry (the holder's and the claimant's
\* assignment and name), base_queue and player_queues stay as they are and
\* nothing is written to any connection.
C2_RejectedClaimIsNoOp ==
    [][(/\ op'.name = "load_player"
        /\ \E x \in Registered(clients) \ {op'.client} :
              clients[x].world = op'.world)
       => (/\ op'.ret = FALSE
           /\ clients' = clients
           /\ NothingSent(sent')
           /\ base_queue' = base_queue
           /\ player_queues' = player_queues)]_vars

\* A client that holds a world and has set its name was refused the world
\* of another client.
C2_Witness ==
    /\ op.name = "load_player" /\ ~op.ret
    /\ op.client \in Registered(clients)
    /\ clients[op.client].world # 0
    /\ clients[op.client].name # DEFAULT_NAME
    /\ \E x \in Registered(clients) \ {op.client} : clients[x].world = op.world

\* ---------------------------------------------------------------- C3
\* C3: base_queue never holds two items with the same (source, key), and
\* after every accepted SendItem of the shared kind (first send or replay)
\* it holds exactly one item with that call's (source, key).
C3_BaseQueueIdempotent ==
    /\ NoDuplicate(base_queue)
    /\ [][/\ NoDuplicate(base_queue')
          /\ (op'.name = "queue_item" /\ op'.ret /\ op'.kind = TRIFORCE_PIECE)
             => Cardinality(Matches(base_queue', clients[op'.client].world,
                                    op'.key)) = 1]_vars

\* A shared send was replayed: it wrote nothing although another client
\* holds a different world, and base_queue holds two items.
C3_Witness ==
    /\ op.name = "queue_item" /\ op.ret /\ op.kind = TRIFORCE_PIECE
    /\ NothingSent(sent)
    /\ Len(base_queue) = 2
    /\ \E x \in Assigned(clients) : clients[x].world # clients[op.client].world

\* ---------------------------------------------------------------- C4
\* C4: no player_queues[w] ever holds two items with the same (source, key).
C4_PlayerQueuesNoDuplicate ==
    \A w \in DOMAIN player_queues : NoDuplicate(player_queues[w])

\* ---------------------------------------------------------------- C5
\* C5: a queue player_queues[w] is created as base_queue followed by the
\* world-specific item of the call; a shared item appended to base_queue is
\* appended to every existing player queue; base_queue is at all times an
\* in-order subsequence of every player queue.
C5_BaseIsSubseq ==
    \A w \in DOMAIN player_queues : IsSubseq(base_queue, player_queues[w])

C5_Forking ==
    /\ C5_BaseIsSubseq
    /\ [][/\ \A w \in DOMAIN player_queues' \ DOMAIN player_queues :
                /\ op'.name = "queue_item" /\ op'.world = w
                /\ op'.kind # TRIFORCE_PIECE
                /\ base_queue' = base_queue
                /\ player_queues'[w] =
                      Append(base_queue, Item(clients[op'.client].world,
                                              op'.key, op'.kind))
          /\ base_queue' # base_queue
             => /\ Len(base_queue') = Len(base_queue) + 1
                /\ SubSeq(base_queue', 1, Len(base_queue)) = base_queue
                /\ DOMAIN player_queues' = DOMAIN player_queues
                /\ \A w \in DOMAIN player_queues :
                      player_queues'[w] =
                         Append(player_queues[w], base_queue'[Len(base_queue')])
          /\ C5_BaseIsSubseq']_vars

\* A queue forked from a non-empty base_queue has since received a second
\* shared item: shared, world-specific, shared.
C5_Witness ==
    \E w \in DOMAIN player_queues :
        /\ Len(player_queues[w]) = 3
        /\ Len(base_queue) = 2
        /\ player_queues[w][1].kind = TRIFORCE_PIECE
        /\ player_queues[w][2].kind # TRIFORCE_PIECE
        /\ player_queues[w][3].kind = TRIFORCE_PIECE

\* ---------------------------------------------------------------- C6
\* C6: a SendItem of the shared kind whose (source world, key) is already in
\* base_queue writes nothing to any connection and leaves base_queue and
\* every player queue as they are.
C6_SharedReplayIsSilent ==
    [][(/\ op'.name = "queue_item" /\ op'.kind = TRIFORCE_PIECE
        /\ clients[op'.client].world # 0
        /\ Matches(base_queue, clients[op'.client].world, op'.key) # {})
       => (/\ NothingSent(sent')
           /\ base_queue' = base_queue
           /\ player_queues' = player_queues)]_vars

\* A shared send was replayed while a player queue exists and another
\* client holds a different world.
C6_Witness ==
    /\ op.name = "queue_item" /\ op.ret /\ op.kind = TRIFORCE_PIECE
    /\ NothingSent(sent)
    /\ DOMAIN player_queues # {}
    /\ Matches(base_queue, clients[op.client].world, op.key) # {}
    /\ \E x \in Assigned(clients) : clients[x].world # clients[op.client].world

\* ---------------------------------------------------------------- C7
\* C7: a client holding world s never receives a shared item found by s:
\* not as a GetItem when the item is accepted, and not as an entry of the
\* ItemQueue it receives when it claims s.
C7_FinderNeverGetsOwnShared ==
    [][/\ (op'.name = "queue_item" /\ op'.ret /\ op'.kind = TRIFORCE_PIECE)
          => \A x \in Registered(clients) :
                clients[x].world = clients[op'.client].world
                   => CountOk(sent'[x], "GetItem") = 0
       /\ op'.name = "load_player"
          => LET q == IF op'.world \in DOMAIN player_queues
                      THEN player_queues[op'.world] ELSE base_queue
                 log == sent'[op'.client]
             IN \A i \in 1..Len(log) :
                   (log[i].msg.type = "ItemQueue" /\ log[i].ok)
                      => \A j \in 1..Len(log[i].msg.queue) :
                            ~(q[j].kind = TRIFORCE_PIECE /\ q[j].source = op'.world)]_vars

\* ---------------------------------------------------------------- C8
\* C8: when a new shared item found by world s is accepted, GetItem(kind) is
\* written at most once per connection and only to clients registered with
\* a world other than s; each of them that is still registered when the
\* call returns was sent it exactly once, and when no write fails during
\* the call each of them is sent it exactly once.
C8_SharedGoesToOtherWorlds ==
    [][(/\ op'.name = "queue_item" /\ op'.ret /\ op'.kind = TRIFORCE_PIECE
        /\ Matches(base_queue, clients[op'.client].world, op'.key) = {})
       => \A x \in DOMAIN sent' :
             LET n == CountOf(sent'[x], "GetItem")
                 target == /\ x \in Registered(clients)
                           /\ clients[x].world # 0
                           /\ clients[x].world # clients[op'.client].world
                 clean == \A y \in DOMAIN sent' : \A i \in 1..Len(sent'[y]) :
                             sent'[y][i].ok
             IN /\ n <= 1
                /\ ~target => n = 0
                /\ (target /\ (clean \/ x \in Registered(clients'))) => n = 1
                /\ \A i \in 1..Len(sent'[x]) :
                      sent'[x][i].msg.type = "GetItem"
                         => sent'[x][i].msg.kind = op'.kind]_vars

\* A new shared item was sent once to each of the clients of two other
\* worlds and not to the finder.
C8_Witness ==
    /\ op.name = "queue_item" /\ op.ret /\ op.kind = TRIFORCE_PIECE
    /\ CountOf(sent[op.client], "GetItem") = 0
    /\ \E x, y \in Assigned(clients) :
          /\ x # y
          /\ clients[x].world # clients[op.client].world
          /\ clients[y].world # clients[op.client].world
          /\ CountOf(sent[x], "GetItem") = 1
          /\ CountOf(sent[y], "GetItem") = 1

C10_SpecificAtMostOnce ==
    [][/\ op'.name # "queue_item"
          => \A x \in DOMAIN sent' : CountOf(sent'[x], "GetItem") = 0
       /\ (op'.name = "queue_item" /\ op'.ret /\ op'.kind # TRIFORCE_PIECE)
          => IF [source |-> clients[op'.client].world, key |-> op'.key,
                 target |-> op'.world] \in accepted
             THEN NothingSent(sent')
             ELSE \A x \in DOMAIN sent' :
                     /\ CountOf(sent'[x], "GetItem") <= 1
                     /\ CountOf(sent'[x], "GetItem") = 1
                        => /\ x \in Registered(clients)
                           /\ clients[x].world = op'.world]_vars

\* A world-specific send was replayed while a client holds the target
\* world: nothing was written.
C10_Witness ==
    /\ op.name = "queue_item" /\ op.ret /\ op.kind # TRIFORCE_PIECE
    /\ NothingSent(sent)
    /\ [source |-> clients[op.client].world, key |-> op.key,
        target |-> op.world] \in accepted
    /\ \E x \in Assigned(clients) : clients[x].world = op.world

\* ---------------------------------------------------------------- C11
\* The number of writes of exactly the message msg attempted on a connection.
CountMsg(log, msg) == Cardinality({i \in 1..Len(log) : log[i].msg = msg})

\* C11: remove_client(c) of a registered client removes c and writes
\* nothing to c.  Every client still registered when the call returns was
\* sent, for each client removed during the call (c itself and the clients
\* whose write failed), exactly one message: PlayerDisconnected(w) when the
\* removed client held w, UnregisteredClientDisconnected when it held no
\* world; and nothing else.  No connection is sent the message of c's
\* removal twice when c held a world.
C11_DisconnectBroadcast ==
    [][op'.name = "remove_client"
       => LET gone == DOMAIN clients \ DOMAIN clients'
          IN /\ op'.client \in gone
             /\ sent'[op'.client] = <<>>
             /\ \A x \in DOMAIN sent' :
                   clients[op'.client].world # 0
                      => CountMsg(sent'[x],
                            MsgPlayerDisconnected(clients[op'.client].world)) <= 1
             /\ \A x \in DOMAIN clients' :
                   LET log == sent'[x]
                   IN /\ \A i \in 1..Len(log) : log[i].ok
                      /\ \A z \in gone :
                            clients[z].world # 0
                               => CountMsg(log, MsgPlayerDisconnected(clients[z].world)) = 1
                      /\ CountMsg(log, MsgUnregisteredClientDisconnected)
                            = Cardinality({z \in gone : clients[z].world = 0})
                      /\ Len(log) = Cardinality(gone)]_vars

\* A client was removed, the write of its message to a second client failed,
\* and the third client was sent one PlayerDisconnected and one
\* UnregisteredClientDisconnected.
C11_Witness ==
    /\ op.name = "remove_client"
    /\ \E x \in Registered(clients) :
          /\ Len(sent[x]) = 2
          /\ CountOf(sent[x], "PlayerDisconnected") = 1
          /\ CountOf(sent[x], "UnregisteredClientDisconnected") = 1

\* ---------------------------------------------------------------- C12
\* C12: add_client(c) writes nothing to c, and when it returns c is
\* registered without a world; ClientConnected is written at most once per
\* connection, only to clients registered before the call, and exactly once
\* to each of them that is still registered when the call returns, whose
\* registry entries are unchanged.
C12_ConnectedBeforeInsert ==
    [][op'.name = "add_client"
       => LET c == op'.client
          IN /\ sent'[c] = <<>>
             /\ c \in DOMAIN clients' /\ clients'[c] = None
             /\ DOMAIN clients' \ {c} \subseteq DOMAIN clients
             /\ \A x \in DOMAIN sent' :
                   /\ CountOf(sent'[x], "ClientConnected") <= 1
                   /\ CountOf(sent'[x], "ClientConnected") = 1
                         => x \in DOMAIN clients
             /\ \A x \in DOMAIN clients' \ {c} :
                   /\ CountOk(sent'[x], "ClientConnected") = 1
                   /\ clients'[x] = clients[x]]_vars

\* A client was added to a room with a registered client, which was sent
\* ClientConnected.
C12_Witness ==
    /\ op.name = "add_client"
    /\ op.client \in Registered(clients)
    /\ sent[op.client] = <<>>
    /\ \E x \in Registered(clients) \ {op.client} :
          CountOk(sent[x], "ClientConnected") = 1

\* ---------------------------------------------------------------- C13
\* The messages that the call o, made in a room with registry cl, hands to
\* write_all itself (the disconnect messages of clients whose write fails
\* are handed to write_all by remove_client).
BroadcastsOf(o, cl) ==
    LET prev == cl[o.client].world
    IN IF o.name = "add_client" THEN {MsgClientConnected}
       ELSE IF o.name = "remove_client" /\ prev # 0
       THEN {MsgPlayerDisconnected(prev)}
       ELSE IF o.name = "unload_player" /\ prev # 0 THEN {MsgResetPlayerId(prev)}
       ELSE IF o.name = "set_player_name" /\ o.ret
       THEN {MsgPlayerName(prev, o.pname)}
       ELSE IF o.name = "load_player" /\ o.ret /\ prev # o.world
       THEN {MsgPlayerId(o.world)}
            \cup (IF prev # 0 THEN {MsgResetPlayerId(prev)} ELSE {})
       ELSE {}

\* C13: a message broadcast by a call is written at most once to any
\* connection and has been written, successfully, exactly once to every
\* client that was registered before the call and is registered when it
\* returns; a client whose write failed is not registered when the call
\* returns, and the failure does not keep the message from the others.
C13_BroadcastOncePerClient ==
    [][op'.name # "idle"
       => LET cl == IF op'.name = "add_client"
                    THEN [x \in DOMAIN clients \cup {op'.client} |-> None]
                    ELSE clients
          IN /\ \A m \in BroadcastsOf(op', cl) :
                   /\ \A x \in DOMAIN sent' : CountMsg(sent'[x], m) <= 1
                   /\ \A x \in DOMAIN clients' \cap DOMAIN clients :
                         /\ CountMsg(sent'[x], m) = 1
                         /\ \A i \in 1..Len(sent'[x]) : sent'[x][i].ok
             /\ \A x \in DOMAIN sent' : \A i \in 1..Len(sent'[x]) :
                   ~sent'[x][i].ok => x \notin DOMAIN clients']_vars

\* A release was broadcast: the write to one client failed, and the two
\* clients that are still registered were each sent the message once.
C13_Witness ==
    /\ op.name = "unload_player"
    /\ \E x \in DOMAIN sent :
          /\ x \notin Registered(clients)
          /\ \E i \in 1..Len(sent[x]) :
                sent[x][i].msg.type = "ResetPlayerId" /\ ~sent[x][i].ok
    /\ Cardinality({y \in Registered(clients) :
                      CountOk(sent[y], "ResetPlayerId") = 1}) = 2

\* ---------------------------------------------------------------- C14
\* The connections with a failed write in the logs s.
Failed(s) == {x \in DOMAIN s : \E i \in 1..Len(s[x]) : ~s[x][i].ok}

\* The world client z holds when it is removed during call o: the call has
\* already changed the world of its own client when it starts to write.
WorldAtRemoval(o, cl, z) ==
    IF z = o.client /\ o.name = "load_player" /\ o.ret THEN o.world
    ELSE IF z = o.client /\ o.name = "unload_player" THEN 0
    ELSE cl[z].world

\* C14: in every call, a client leaves the registry only when a write to
\* it failed (or the call is its remove_client), and every client with a
\* failed write leaves it; for each client removed, every client that stays
\* registered is sent exactly one disconnect message, PlayerDisconnected(w)
\* when the removed client held w and UnregisteredClientDisconnected when
\* it held no world; every client that stays registered, other than the
\* caller, keeps its world and name; the queues change only in queue_item,
\* and there only by the one item of the call.
C14_WriteFailureIsScoped ==
    [][op'.name # "idle"
       => LET gone == DOMAIN clients \ DOMAIN clients'
              stay == DOMAIN clients \cap DOMAIN clients'
              item == Item(clients[op'.client].world, op'.key, op'.kind)
          IN /\ \A z \in gone :
                   z \in Failed(sent') \/ (op'.name = "remove_client" /\ z = op'.client)
             /\ Failed(sent') \subseteq gone
             /\ \A x \in stay :
                   /\ \A z \in gone :
                         WorldAtRemoval(op', clients, z) # 0
                            => CountMsg(sent'[x], MsgPlayerDisconnected(
                                  WorldAtRemoval(op', clients, z))) = 1
                   /\ CountMsg(sent'[x], MsgUnregisteredClientDisconnected)
                         = Cardinality({z \in gone :
                                          WorldAtRemoval(op', clients, z) = 0})
                   /\ CountOf(sent'[x], "PlayerDisconnected")
                         = Cardinality({z \in gone :
                                          WorldAtRemoval(op', clients, z) # 0})
                   /\ x # op'.client => clients'[x] = clients[x]
             /\ IF op'.name = "queue_item" /\ op'.ret
                THEN /\ base_queue' \in {base_queue, Append(base_queue, item)}
                     /\ DOMAIN player_queues' \subseteq DOMAIN player_queues \cup {op'.world}
                     /\ \A w \in DOMAIN player_queues :
                           player_queues'[w] \in {player_queues[w],
                                                  Append(player_queues[w], item)}
                ELSE base_queue' = base_queue /\ player_queues' = player_queues]_vars

\* The write of an item to its target failed: the target was removed, and
\* the sender, which has a world and a name of its own, is still registered
\* and was sent PlayerDisconnected.
C14_Witness ==
    /\ op.name = "queue_item" /\ op.ret
    /\ \E z \in Failed(sent) : z \notin Registered(clients)
    /\ op.client \in Registered(clients)
    /\ clients[op.client].world # 0
    /\ clients[op.client].name # DEFAULT_NAME
    /\ CountOk(sent[op.client], "PlayerDisconnected") = 1

\* ---------------------------------------------------------------- C15
\* C15: whenever PlayerId(w) is written to a connection, a registered
\* client holds w at that moment.
C15_PlayerIdWhileHeld ==
    [][\A x \in DOMAIN sent' : \A i \in 1..Len(sent'[x]) :
          sent'[x][i].msg.type = "PlayerId" => sent'[x][i].held]_vars

\* ---------------------------------------------------------------- C16
DisconnectTypes == {"PlayerDisconnected", "UnregisteredClientDisconnected"}

\* C16: no disconnect takes place inside the broadcast of another
\* operation: in no call is a connection sent the disconnect message of
\* some client and, after it, a message that the call itself broadcasts.
C16_NoDisconnectInsideBroadcast ==
    [][op'.name # "idle"
       => LET cl == IF op'.name = "add_client"
                    THEN [x \in DOMAIN clients \cup {op'.client} |-> None]
                    ELSE clients
          IN \A x \in DOMAIN sent' : \A i, j \in 1..Len(sent'[x]) :
                ~(/\ i < j
                  /\ sent'[x][i].msg.type \in DisconnectTypes
                  /\ sent'[x][i].msg # sent'[x][j].msg
                  /\ sent'[x][j].msg \in BroadcastsOf(op', cl))]_vars

\* ---------------------------------------------------------------- C17
\* C17: no write to a connection is awaited while the room is held
\* exclusively: a method of Room that has borrowed the room (&mut self) and
\* has not returned yet (op is not Idle) has awaited no write.
C17_NoWriteWhileRoomHeld == op # Idle => NothingSent(sent)

\* ---------------------------------------------------------------- C18
\* C18: after every call, the num_unassigned_clients of the RoomClient of
\* every registered client is the number of registered clients without a
\* world.
C18_UnassignedCountTracked ==
    \A x \in DOMAIN view :
        view[x].num_unassigned_clients
            = Cardinality({y \in DOMAIN clients : clients[y] = None})

\* ---------------------------------------------------------------- C19
\* C19: queue_item from a client without a world returns false, leaves the
\* registry, base_queue and player_queues as they are and writes nothing;
\* from a client with a world it returns true.
C19_UnassignedSendRejected ==
    [][op'.name = "queue_item"
       => IF clients[op'.client] = None
          THEN /\ ~op'.ret
               /\ clients' = clients
               /\ base_queue' = base_queue
               /\ player_queues' = player_queues
               /\ NothingSent(sent')
          ELSE op'.ret]_vars

\* A send from a client without a world was rejected while another client
\* holds the target world.
C19_Witness ==
    /\ op.name = "queue_item" /\ ~op.ret
    /\ op.client \in Registered(clients)
    /\ clients[op.client] = None
    /\ \E x \in Assigned(clients) : clients[x].world = op.world

\* ---------------------------------------------------------------- C20
\* C20: when the version read from the peer differs from VERSION,
\* connect_sync returns VersionMismatch(peer version), and nothing goes
\* over the wire after the two version bytes: no Encrypt is written, no
\* room list is read and no stream is handed out.
C20_VersionMismatchAborts ==
    (conn.server_version # -1 /\ conn.server_version # VERSION)
        => /\ conn.wire = <<[sent |-> "version", version |-> VERSION],
                            [read |-> "version", version |-> conn.server_version]>>
           /\ conn.stream = ""
           /\ conn.pc \in {"version_read", "done"}
           /\ conn.pc = "done"
                 => conn.result = Err("VersionMismatch", conn.server_version)

\* The peer sent version 2 and connect_sync returned VersionMismatch(2).
C20_Witness ==
    /\ conn.pc = "done"
    /\ conn.server_version = 2
    /\ conn.result = Err("VersionMismatch", 2)

\* ---------------------------------------------------------------- C21
\* The two version bytes of a successful version exchange.
VersionExchange ==
    <<[sent |-> "version", version |-> VERSION],
      [read |-> "version", version |-> VERSION]>>

\* C21: Encrypt is written only for a default host and only as the first
\* thing after a successful version exchange; once the stream is chosen
\* (and so whenever the room list is read or connect_sync returns Ok), the
\* stream is the encrypted one and Encrypt was written if the host is
\* DefaultIpv4 or DefaultIpv6, and the stream is the unencrypted one and
\* nothing was written after the version exchange if the host is custom;
\* the room list is read last.
C21_EncryptIffDefault ==
    LET encrypt == [sent |-> "Encrypt"]
        chosen == conn.pc = "stream_chosen" \/ conn.result.type = "Ok"
        rooms == {i \in 1..Len(conn.wire) : "rooms" \in DOMAIN conn.wire[i]}
    IN /\ (\E i \in 1..Len(conn.wire) : conn.wire[i] = encrypt)
          => /\ conn.host \in {"DefaultIpv4", "DefaultIpv6"}
             /\ SubSeq(conn.wire, 1, 3) = VersionExchange \o <<encrypt>>
             /\ conn.stream = "Encrypted"
       /\ chosen
          => IF conn.host \in {"DefaultIpv4", "DefaultIpv6"}
             THEN /\ conn.stream = "Encrypted"
                  /\ SubSeq(conn.wire, 1, 3) = VersionExchange \o <<encrypt>>
             ELSE /\ conn.stream = "Unencrypted"
                  /\ SubSeq(conn.wire, 1, 2) = VersionExchange
                  /\ \A i \in 3..Len(conn.wire) : i \in rooms
       /\ conn.stream # "" => chosen \/ conn.pc = "done"
       /\ \A i \in rooms : chosen /\ i = Len(conn.wire)
       /\ conn.result.type = "Ok"
          => /\ conn.result.stream = conn.stream
             /\ rooms # {}

\* connect_sync to the default IPv6 endpoint returned the encrypted stream
\* and a room list.
C21_Witness ==
    /\ conn.pc = "done"
    /\ conn.host = "DefaultIpv6"
    /\ conn.result.type = "Ok"
    /\ conn.result.stream = "Encrypted"
    /\ conn.result.rooms = {"a"}

\* ---------------------------------------------------------------- C22
\* The positions of a log at which exactly msg was written.
Positions(log, msg) == {i \in 1..Len(log) : log[i].msg = msg}

\* C22: when a client c that holds w' claims another world w that no other
\* client holds, load_player returns true; every client that is registered
\* before and after the call is sent exactly one ResetPlayerId(w') and
\* exactly one PlayerId(w), and on no connection is PlayerId(w) written
\* before ResetPlayerId(w'); ItemQueue is written to no connection but c's,
\* at most once, as the last write to c, and holds the kinds of
\* player_queues[w], or of base_queue when w has no player queue; when that
\* queue is empty no ItemQueue is written, and when it is not empty and c
\* is still registered when the call returns, the ItemQueue was written.
C22_SwitchResetThenPlayerId ==
    [][(/\ op'.name = "load_player"
        /\ clients[op'.client].world \notin {0, op'.world}
        /\ \A x \in Registered(clients) : clients[x].world # op'.world)
       => LET c == op'.client
              reset == MsgResetPlayerId(clients[c].world)
              player == MsgPlayerId(op'.world)
              queue == KindsOf(IF op'.world \in DOMAIN player_queues
                               THEN player_queues[op'.world] ELSE base_queue)
          IN /\ op'.ret
             /\ \A x \in DOMAIN sent' :
                   LET log == sent'[x]
                   IN /\ \A i \in Positions(log, reset), j \in Positions(log, player) :
                            i < j
                      /\ x \in DOMAIN clients \cap DOMAIN clients'
                            => /\ Cardinality(Positions(log, reset)) = 1
                               /\ Cardinality(Positions(log, player)) = 1
                      /\ x # c => CountOf(log, "ItemQueue") = 0
                      /\ \A i \in 1..Len(log) :
                            log[i].msg.type = "ItemQueue"
                               => /\ log[i].msg = MsgItemQueue(queue)
                                  /\ queue # <<>>
                                  /\ i = Len(log)
                                  /\ Positions(log, player) # {}
             /\ CountOf(sent'[c], "ItemQueue") <= 1
             /\ (queue # <<>> /\ c \in DOMAIN clients')
                   => CountOk(sent'[c], "ItemQueue") = 1]_vars

\* A client switched to a world with a queue of two items: it was sent
\* ResetPlayerId, PlayerId and the ItemQueue, the other client
\* ResetPlayerId and PlayerId.
C22_Witness ==
    /\ op.name = "load_player" /\ op.ret
    /\ op.client \in Registered(clients)
    /\ Len(sent[op.client]) = 3
    /\ sent[op.client][1].msg.type = "ResetPlayerId"
    /\ sent[op.client][2].msg.type = "PlayerId"
    /\ sent[op.client][3].msg.type = "ItemQueue"
    /\ Len(sent[op.client][3].msg.queue) = 2
    /\ \E x \in Registered(clients) \ {op.client} :
          /\ Len(sent[x]) = 2
          /\ sent[x][1].msg.type = "ResetPlayerId"
          /\ sent[x][2].msg.type = "PlayerId"

\* ---------------------------------------------------------------- C23
\* C23: unload_player from a client c that holds w leaves c, when it is
\* still registered, without a world; ResetPlayerId(w) is written at most
\* once to any connection and exactly once to every client registered
\* before and after the call, c included, and no other ResetPlayerId is
\* written; the clients other than c keep their entries.  From a client
\* without a world the registry is unchanged and nothing is written.  In
\* both cases base_queue and player_queues are unchanged.
C23_UnloadPlayer ==
    [][op'.name = "unload_player"
       => LET c == op'.client
              w == clients[c].world
          IN /\ base_queue' = base_queue
             /\ player_queues' = player_queues
             /\ IF w # 0
                THEN /\ c \in DOMAIN clients' => clients'[c] = None
                     /\ \A x \in DOMAIN clients' : x # c => clients'[x] = clients[x]
                     /\ \A x \in DOMAIN sent' :
                           /\ CountMsg(sent'[x], MsgResetPlayerId(w)) <= 1
                           /\ CountOf(sent'[x], "ResetPlayerId")
                                 = CountMsg(sent'[x], MsgResetPlayerId(w))
                     /\ \A x \in DOMAIN clients' :
                           CountMsg(sent'[x], MsgResetPlayerId(w)) = 1
                ELSE /\ clients' = clients
                     /\ NothingSent(sent')]_vars

\* A client released its world: it holds none now, and it and the other
\* client were sent ResetPlayerId.
C23_Witness ==
    /\ op.name = "unload_player"
    /\ op.client \in Registered(clients)
    /\ clients[op.client] = None
    /\ Cardinality({x \in Registered(clients) :
                      CountOk(sent[x], "ResetPlayerId") = 1}) = 2

\* ---------------------------------------------------------------- C24
\* C24: set_player_name(c, n) from a client c that holds w returns true;
\* c, when it is still registered, holds w under the name n, and the other
\* clients keep their entries; PlayerName(w, n) is written at most once to
\* any connection and exactly once to every client registered before and
\* after the call, c included, and no other PlayerName is written.  From a
\* client without a world it returns false, the registry is unchanged and
\* nothing is written.  In both cases the queues are unchanged.
C24_SetPlayerName ==
    [][op'.name = "set_player_name"
       => LET c == op'.client
              w == clients[c].world
              msg == MsgPlayerName(w, op'.pname)
          IN /\ base_queue' = base_queue
             /\ player_queues' = player_queues
             /\ IF w # 0
                THEN /\ op'.ret
                     /\ c \in DOMAIN clients'
                           => clients'[c] = [world |-> w, name |-> op'.pname]
                     /\ \A x \in DOMAIN clients' : x # c => clients'[x] = clients[x]
                     /\ \A x \in DOMAIN sent' :
                           /\ CountMsg(sent'[x], msg) <= 1
                           /\ CountOf(sent'[x], "PlayerName") = CountMsg(sent'[x], msg)
                     /\ \A x \in DOMAIN clients' : CountMsg(sent'[x], msg) = 1
                ELSE /\ ~op'.ret
                     /\ clients' = clients
                     /\ NothingSent(sent')]_vars

\* A client changed its name from another one to 1: it and the other
\* client were sent PlayerName.
C24_Witness ==
    /\ op.name = "set_player_name" /\ op.ret /\ op.pname = 1
    /\ op.client \in Registered(clients)
    /\ clients[op.client].name = 1
    /\ Cardinality({x \in Registered(clients) :
                      CountOk(sent[x], "PlayerName") = 1}) = 2

\* ---------------------------------------------------------------- C25
\* The positions of the stream at which a Message of the type was emitted.
Emitted(type) == {i \in 1..Len(listener.out) : listener.out[i].type = type}

\* C25: the listener emits Pj64Connected or a Plugin message only after it
\* has written its version byte and read the client's, in this order, and
\* the two are equal; Pj64Connected is emitted at most once, as the first
\* Message, and every Plugin message comes after it.  When the client's
\* version differs, the stream ends with one Message, the
\* Pj64SubscriptionError of VersionMismatch(client_version).
C25_ListenerVersionGate ==
    LET l == listener
        read == l.client_version # -1
    IN /\ Cardinality(Emitted("Pj64Connected")) <= 1
       /\ Emitted("Pj64Connected") \subseteq {1}
       /\ Emitted("Plugin") # {} => Emitted("Pj64Connected") = {1}
       /\ (Emitted("Pj64Connected") # {} \/ Emitted("Plugin") # {})
             => /\ read /\ l.client_version = l.version
                /\ SubSeq(l.wire, 1, 2)
                      = <<[sent |-> "version", version |-> l.version],
                          [read |-> "version", version |-> l.client_version]>>
       /\ l.pc = "reading" => Emitted("Pj64Connected") = {1}
       /\ (read /\ l.client_version # l.version)
             => /\ Emitted("Pj64Connected") = {} /\ Emitted("Plugin") = {}
                /\ l.pc \in {"version_read", "done"}
                /\ Len(l.wire) = 2
                /\ IF l.pc = "done"
                   THEN l.out = <<Pj64SubscriptionError("VersionMismatch",
                                                        l.client_version)>>
                   ELSE l.out = <<>>

\* A client of version 2 connected to a listener of version 1: the stream
\* ended with the error of VersionMismatch(2).
C25_Witness ==
    /\ listener.pc = "done"
    /\ listener.version = 1
    /\ listener.out = <<Pj64SubscriptionError("VersionMismatch", 2)>>

\* ---------------------------------------------------------------- C26
\* C26: after every call, the item_queue of the RoomClient of every
\* registered client that holds a world is the sequence of the kinds of the
\* queue of that world: of its fork in player_queues when it has one, of
\* base_queue otherwise.
C26_ItemListTracksQueue ==
    \A x \in Assigned(clients) :
        x \in DOMAIN view
            => view[x].item_queue = KindsOf(QueueFor(clients[x].world))

\* ---------------------------------------------------------------- C27
\* C27: no call of the Room panics with "no such client": whenever the task
\* of a connection calls load_player, unload_player, set_player_name or
\* queue_item between its add_client and its remove_client, its client is
\* in the registry.
C27_NoSuchClientNeverPanics ==
    \A c \in DOMAIN session : session[c] # "panicked"

\* ---------------------------------------------------------------- C28
\* The connections with a write that failed in the logs.
FailedIn(s) == {x \in DOMAIN s : \E i \in 1..Len(s[x]) : ~s[x][i].ok}

\* C28: every call with its broadcasts comes to an end, whichever writes
\* fail: each failed write is the last write to its connection and removes
\* one client from the registry (the clients gone after the call are those
\* whose write failed, and the one that remove_client was called for); a
\* write is attempted inside fewer nested calls of remove_client than
\* clients were registered at the start, so that the nesting is at most
\* that number; and a connection is written at most once for each of them
\* and for each of the at most three messages of the call itself.
C28_BroadcastTerminates ==
    [][op'.name # "idle"
       => LET n == Cardinality(DOMAIN clients)
              gone == DOMAIN clients \ DOMAIN clients'
              own == IF op'.name = "remove_client" THEN {op'.client} ELSE {}
          IN /\ gone = FailedIn(sent') \cup own
             /\ FailedIn(sent') \cap own = {}
             /\ \A x \in DOMAIN sent' : \A i \in 1..Len(sent'[x]) :
                   /\ ~sent'[x][i].ok => i = Len(sent'[x])
                   /\ sent'[x][i].depth < n
                   /\ sent'[x][i].depth <= Cardinality(gone)
             /\ \A x \in DOMAIN sent' : Len(sent'[x]) <= n + 2]_vars

\* Every write fails: of three registered clients one disconnects, the
\* write of its disconnect message fails, and the write of the disconnect
\* message of that client, two calls of remove_client deep, fails as well;
\* no client is left.
C28_Witness ==
    /\ op.name = "remove_client"
    /\ clients = <<>>
    /\ Cardinality(FailedIn(sent)) = 2
    /\ \E x \in FailedIn(sent) : sent[x][Len(sent[x])].depth = 2

\* ---------------------------------------------------------------- C29
\* C29: after every call, the name that the room stores for the player of a
\* world is the name that the RoomClient of every registered client has for
\* that world, when it has the world among its players.
C29_NameTracked ==
    \A x \in DOMAIN view : \A y \in Assigned(clients) :
        clients[y].world \in DOMAIN view[x].players
            => view[x].players[clients[y].world] = clients[y].name

\* ---------------------------------------------------------------- C30
\* C30: once the holder of a world w has been removed (by its disconnect or
\* by a write that failed) or has released or left w, no registered client
\* holds w until w is claimed again; the next load_player for w, by any
\* registered client, returns true; the queue the claimant is sent from
\* holds every item queued for w while it was unclaimed; and when that
\* queue is not empty the claimant, if it is still registered when the call
\* returns, was sent exactly one ItemQueue, the kinds of the whole queue.
C30_ReleasedWorldIsClaimable ==
    [][/\ \A w \in DOMAIN released' :
             released'[w].state = "unclaimed" => w \notin Held(clients')
       /\ (/\ op'.name = "load_player"
           /\ op'.world \in DOMAIN released
           /\ released[op'.world].state = "unclaimed")
          => LET q == QueueOf(player_queues', base_queue', op'.world)
                 log == sent'[op'.client]
             IN /\ op'.ret
                /\ q = QueueOf(player_queues, base_queue, op'.world)
                /\ released[op'.world].items \subseteq Range(q)
                /\ (q # <<>> /\ op'.client \in Registered(clients'))
                      => /\ clients'[op'.client].world = op'.world
                         /\ CountOf(log, "ItemQueue") = 1
                         /\ \E i \in 1..Len(log) :
                               /\ log[i].msg = MsgItemQueue(KindsOf(q))
                               /\ log[i].ok]_vars

\* The holder of a world went away, two items were queued for the world
\* while nobody held it, and the client that claimed it then was sent an
\* ItemQueue.
C30_Witness ==
    /\ op.name = "load_player" /\ op.ret
    /\ op.world \in DOMAIN released
    /\ released[op.world].state = "reclaimed"
    /\ Cardinality(released[op.world].items) = 2
    /\ op.client \in Registered(clients)
    /\ CountOf(sent[op.client], "ItemQueue") = 1

\* ---------------------------------------------------------------- C31
\* C31: load_player for the world that the calling client holds already
\* returns true and changes nothing: nothing is written to any connection
\* (no ResetPlayerId, no PlayerId, no ItemQueue), and the registry, the
\* name of the player included, base_queue and player_queues are as before.
C31_ReclaimIsNoOp ==
    [][(/\ op'.name = "load_player"
        /\ clients[op'.client] # None
        /\ clients[op'.client].world = op'.world)
       => /\ op'.ret
          /\ NothingSent(sent')
          /\ clients' = clients
          /\ base_queue' = base_queue
          /\ player_queues' = player_queues]_vars

\* A client that has set its name claimed the world it holds again, while
\* another client is registered and the queue of the world holds an item;
\* the call returned true and nothing was written.
C31_Witness ==
    /\ op.name = "load_player" /\ op.ret
    /\ op.client \in Assigned(clients)
    /\ clients[op.client].world = op.world
    /\ clients[op.client].name # DEFAULT_NAME
    /\ Cardinality(Registered(clients)) = 2
    /\ QueueFor(op.world) # <<>>
    /\ NothingSent(sent)

====
